---- MODULE Spec2Model ----
(***************************************************************************)
(* MIVA course scraper and automated update system.                        *)
(*                                                                         *)
(*   src/auto_update.py     AutoUpdateSystem: fingerprint, change          *)
(*                          detection, changelog, run_update               *)
(*   src/scrape_courses.py  MivaCourseScraper: discovery, department       *)
(*                          pages, tables, rows, scrape_all                *)
(*   src/settings.py        configuration flags and the code table         *)
(*                                                                         *)
(* Python dicts are functions with a string domain.  The faculties mapping *)
(* is kept as an ordered mapping (a sequence of entries with distinct      *)
(* names) because _get_flat_depts depends on its iteration order; the      *)
(* departments, levels and semesters mappings carry no order, as nothing   *)
(* in the program but the order of printed lists depends on it.            *)
(***************************************************************************)
EXTENDS Integers, Sequences, FiniteSets, TLC

VARIABLES
    settings,           \* settings.CREATE_INITIAL_CHANGELOG, settings.ALWAYS_SAVE_FULL_DATA
    pc,                 \* position of the running entry point
    full_data_file,     \* the file settings.FULL_DATA_FILE
    changelog_file,     \* the file settings.CHANGELOG_FILE
    clock,              \* datetime.now(), one tick a run
    old_data,           \* run_update / _detect_changes: old_data
    new_data,           \* run_update: new_full_data; _detect_changes: new_data
    old_hash,           \* run_update: old_hash
    new_hash,           \* run_update: new_hash
    changes,            \* _detect_changes: changes
    has_changes,        \* run_update: the value returned
    courses_data,       \* MivaCourseScraper.courses_data
    found_faculties,    \* scrape_all: faculties
    faculty_index,      \* scrape_all: place in `for faculty in faculties`
    dept_index,         \* scrape_all: place in `for dept in faculty['departments']`
    total_departments,  \* scrape_all: total_departments
    total_courses,      \* scrape_all: total_courses
    requests,           \* the urls session.get was called with, in order
    responses,          \* what each of these calls gave: "ok" or "failed"
    results,            \* scrape_all: the value of courses at each department
    document,           \* scrape_department_page: the response parsed
    found_courses       \* scrape_all: courses, the result of scrape_department_page

updateVars == <<full_data_file, changelog_file, clock, old_data, new_data,
                old_hash, new_hash, changes, has_changes>>

scrapeVars == <<courses_data, found_faculties, faculty_index, dept_index,
                total_departments, total_courses, requests, responses,
                results, document, found_courses>>

vars == <<settings, pc, updateVars, scrapeVars>>

-----------------------------------------------------------------------------
(* Dicts *)

EmptyDict == [k \in {} |-> 0]

\* dict.get(key, default)
Get(d, key, default) == IF key \in DOMAIN d THEN d[key] ELSE default

\* an ordered mapping: d[name] = value keeps the place of an existing key
OrderedKeys(entries) == {entries[i].name : i \in DOMAIN entries}

OrderedSet(entries, name, value) ==
    IF name \in OrderedKeys(entries)
    THEN [i \in DOMAIN entries |->
             IF entries[i].name = name
             THEN [name |-> name, departments |-> value]
             ELSE entries[i]]
    ELSE Append(entries, [name |-> name, departments |-> value])

\* d[name] of an ordered mapping
OrderedGet(entries, name) ==
    (CHOOSE i \in DOMAIN entries : entries[i].name = name)

-----------------------------------------------------------------------------
(* Course counting: sum(len(sem) for level in courses.values()              *)
(*                              for sem in level.values())                  *)

RECURSIVE SumSemesters(_, _)
SumSemesters(level, sems) ==
    IF sems = {} THEN 0
    ELSE LET s == CHOOSE s \in sems : TRUE
         IN  Len(level[s]) + SumSemesters(level, sems \ {s})

RECURSIVE SumLevels(_, _)
SumLevels(courses, levels) ==
    IF levels = {} THEN 0
    ELSE LET l == CHOOSE l \in levels : TRUE
         IN  SumSemesters(courses[l], DOMAIN courses[l])
             + SumLevels(courses, levels \ {l})

CountCourses(courses) == SumLevels(courses, DOMAIN courses)

-----------------------------------------------------------------------------------------------------------------------------------------------------
(* Text.  A string is the sequence of its characters.                       *)

UpperToLower ==
    "A" :> "a" @@ "B" :> "b" @@ "C" :> "c" @@ "D" :> "d" @@ "E" :> "e" @@
    "F" :> "f" @@ "G" :> "g" @@ "H" :> "h" @@ "I" :> "i" @@ "J" :> "j" @@
    "K" :> "k" @@ "L" :> "l" @@ "M" :> "m" @@ "N" :> "n" @@ "O" :> "o" @@
    "P" :> "p" @@ "Q" :> "q" @@ "R" :> "r" @@ "S" :> "s" @@ "T" :> "t" @@
    "U" :> "u" @@ "V" :> "v" @@ "W" :> "w" @@ "X" :> "x" @@ "Y" :> "y" @@
    "Z" :> "z"

Digits == "0" :> 0 @@ "1" :> 1 @@ "2" :> 2 @@ "3" :> 3 @@ "4" :> 4
          @@ "5" :> 5 @@ "6" :> 6 @@ "7" :> 7 @@ "8" :> 8 @@ "9" :> 9

Whitespace == {" ", "\t", "\n"}

IsUpper(c) == c \in DOMAIN UpperToLower
IsLower(c) == c \in {UpperToLower[u] : u \in DOMAIN UpperToLower}
IsDigit(c) == c \in DOMAIN Digits

\* \w of a regular expression
IsWordChar(c) == IsUpper(c) \/ IsLower(c) \/ IsDigit(c) \/ c = "_"

\* str.lower()
Lower(text) ==
    [i \in DOMAIN text |->
        IF IsUpper(text[i]) THEN UpperToLower[text[i]] ELSE text[i]]

\* key in text, at the place `at` (0-based)
MatchesAt(text, key, at) ==
    /\ at + Len(key) <= Len(text)
    /\ \A j \in 1..Len(key) : text[at + j] = key[j]

\* key in text
Contains(text, key) == \E at \in 0..Len(text) : MatchesAt(text, key, at)

\* str.replace(' ', '-')
ReplaceSpaces(text) == [i \in DOMAIN text |-> IF text[i] = " " THEN "-" ELSE text[i]]

\* str.strip(), as get_text(strip=True) does to the one string of a cell
Strip(text) ==
    LET solid == {i \in DOMAIN text : text[i] \notin Whitespace}
    IN  IF solid = {} THEN <<>>
        ELSE LET first == CHOOSE i \in solid : \A j \in solid : i <= j
                 last  == CHOOSE i \in solid : \A j \in solid : j <= i
             IN  SubSeq(text, first, last)

\* \b before the place i (1-based) of text
BoundaryBefore(text, i) ==
    IF i = 1 THEN IsWordChar(text[1])
    ELSE IsWordChar(text[i - 1]) # IsWordChar(text[i])

\* the members of a set of numbers, in rising order
RECURSIVE Sorted(_)
Sorted(S) ==
    IF S = {} THEN <<>>
    ELSE LET least == CHOOSE x \in S : \A y \in S : x <= y
         IN  <<least>> \o Sorted(S \ {least})

-----------------------------------------------------------------------------
(* MivaCourseScraper.DEPARTMENT_CODES, in the order of the dict             *)

DEPARTMENT_CODES ==
    <<
     [key  |-> <<"c", "o", "m", "p", "u", "t", "e", "r", " ", "s", "c", "i",
               "e", "n", "c", "e">>,
      code |-> "CSC"],
     [key  |-> <<"c", "y", "b", "e", "r", "s", "e", "c", "u", "r", "i", "t", "y">>,
      code |-> "CYB"],
     [key  |-> <<"d", "a", "t", "a", " ", "s", "c", "i", "e", "n", "c", "e">>,
      code |-> "DTS"],
     [key  |-> <<"i", "n", "f", "o", "r", "m", "a", "t", "i", "o", "n", " ",
               "t", "e", "c", "h", "n", "o", "l", "o", "g", "y">>,
      code |-> "IFT"],
     [key  |-> <<"s", "o", "f", "t", "w", "a", "r", "e", " ", "e", "n", "g",
               "i", "n", "e", "e", "r", "i", "n", "g">>,
      code |-> "SEN"],
     [key  |-> <<"b", "u", "s", "i", "n", "e", "s", "s", " ", "m", "a", "n",
               "a", "g", "e", "m", "e", "n", "t">>,
      code |-> "BUA"],
     [key  |-> <<"e", "c", "o", "n", "o", "m", "i", "c", "s">>,
      code |-> "ECO"],
     [key  |-> <<"a", "c", "c", "o", "u", "n", "t", "i", "n", "g">>,
      code |-> "ACC"],
     [key  |-> <<"p", "u", "b", "l", "i", "c", " ", "p", "o", "l", "i", "c",
               "y", " ", "a", "n", "d", " ", "a", "d", "m", "i", "n", "i",
               "s", "t", "r", "a", "t", "i", "o", "n">>,
      code |-> "PPA"],
     [key  |-> <<"e", "n", "t", "r", "e", "p", "r", "e", "n", "e", "u", "r",
               "s", "h", "i", "p">>,
      code |-> "ENT"],
     [key  |-> <<"c", "r", "i", "m", "i", "n", "o", "l", "o", "g", "y", " ",
               "a", "n", "d", " ", "s", "e", "c", "u", "r", "i", "t", "y",
               " ", "s", "t", "u", "d", "i", "e", "s">>,
      code |-> "CRS"],
     [key  |-> <<"m", "a", "s", "s", " ", "c", "o", "m", "m", "u", "n", "i",
               "c", "a", "t", "i", "o", "n">>,
      code |-> "MAC"],
     [key  |-> <<"c", "o", "m", "m", "u", "n", "i", "c", "a", "t", "i", "o",
               "n", " ", "a", "n", "d", " ", "m", "e", "d", "i", "a", " ",
               "s", "t", "u", "d", "i", "e", "s">>,
      code |-> "MAC"],
     [key  |-> <<"n", "u", "r", "s", "i", "n", "g", " ", "s", "c", "i", "e",
               "n", "c", "e">>,
      code |-> "NUR"],
     [key  |-> <<"p", "u", "b", "l", "i", "c", " ", "h", "e", "a", "l", "t", "h">>,
      code |-> "PHH"]
    >>

-----------------------------------------------------------------------------
(* MivaCourseScraper._extract_dept_code                                     *)

\* ''.join(word[0] for word in words[:3]).upper()
RECURSIVE JoinInitials(_, _)
JoinInitials(text, places) ==
    IF places = <<>> THEN ""
    ELSE text[Head(places)] \o JoinInitials(text, Tail(places))

\* re.findall(r'\b[A-Z][a-z]*', dept_name): a match starts at every capital
\* that follows a word boundary
CapitalWords(text) ==
    Sorted({i \in DOMAIN text : IsUpper(text[i]) /\ BoundaryBefore(text, i)})

extract_dept_code(dept_name, url) ==
    LET dept_lower == Lower(dept_name)
        url_lower  == Lower(url)
        by_name    == {k \in DOMAIN DEPARTMENT_CODES :
                          Contains(dept_lower, DEPARTMENT_CODES[k].key)}
        by_url     == {k \in DOMAIN DEPARTMENT_CODES :
                          Contains(url_lower, ReplaceSpaces(DEPARTMENT_CODES[k].key))}
        words      == CapitalWords(dept_name)
    IN  IF by_name # {}
        THEN DEPARTMENT_CODES[Head(Sorted(by_name))].code
        ELSE IF url # <<>> /\ by_url # {}
        THEN DEPARTMENT_CODES[Head(Sorted(by_url))].code
        ELSE IF words # <<>>
        THEN JoinInitials(dept_name, SubSeq(words, 1, IF Len(words) < 3 THEN Len(words) ELSE 3))
        ELSE "UNK"

-----------------------------------------------------------------------------
(* A department page, as far as the scraper reads it:                       *)
(*   page      [status, accordions]   status "ok", or the failure of the    *)
(*                                    GET (raise_for_status included)       *)
(*   accordion [title, content]       the text of its title element (<<>>   *)
(*                                    without one) and the children of its  *)
(*                                    elementor-tab-content div, in order   *)
(*   node      [kind |-> "string", string]    a comment, a text or a tag    *)
(*                                            holding one string            *)
(*             [kind |-> "table", curriculum, thead, rows]                  *)
(*   row       [header, cells]        class accordion-header, its td texts  *)

StringNode(text) == [kind |-> "string", string |-> text]

TableNode(curriculum, thead, rows) ==
    [kind |-> "table", curriculum |-> curriculum, thead |-> thead, rows |-> rows]

Row(header, cells) == [header |-> header, cells |-> cells]

\* the filter of a list, in order
RECURSIVE Places(_, _)
Places(seq, wanted) ==
    IF seq = <<>> THEN <<>>
    ELSE Places(SubSeq(seq, 1, Len(seq) - 1), wanted)
         \o (IF Len(seq) \in wanted THEN <<Len(seq)>> ELSE <<>>)

\* ''.join of the stripped strings of a row: get_text(strip=True)
RECURSIVE JoinStripped(_)
JoinStripped(texts) ==
    IF texts = <<>> THEN <<>>
    ELSE Strip(Head(texts)) \o JoinStripped(Tail(texts))

-----------------------------------------------------------------------------
(* MivaCourseScraper._parse_table_courses                                   *)

\* int(re.search(r'(\d+)', text).group(1)): the first run of digits, read in
\* base ten; -1 stands for no match
RECURSIVE DigitRun(_, _, _)
DigitRun(text, i, value) ==
    IF i <= Len(text) /\ IsDigit(text[i])
    THEN DigitRun(text, i + 1, 10 * value + Digits[text[i]])
    ELSE value

NoMatch == -1

FirstInteger(text) ==
    LET digits == {i \in DOMAIN text : IsDigit(text[i])}
    IN  IF digits = {} THEN NoMatch
        ELSE DigitRun(text, Head(Sorted(digits)), 0)

\* rows with the accordion-header class, else the rows of two cells with a
\* title of more than 3 characters and a digit in the second cell
CourseRows(table) ==
    LET tagged   == {i \in DOMAIN table.rows : table.rows[i].header}
        fallback == {i \in DOMAIN table.rows :
                        /\ Len(table.rows[i].cells) = 2
                        /\ Len(Strip(table.rows[i].cells[1])) > 3
                        /\ FirstInteger(Strip(table.rows[i].cells[2])) # NoMatch}
    IN  IF tagged # {} THEN tagged ELSE fallback

\* a row is kept when it has two cells or more, a title and an integer
RowParsed(row) ==
    /\ Len(row.cells) >= 2
    /\ FirstInteger(Strip(row.cells[2])) # NoMatch
    /\ Strip(row.cells[1]) # <<>>

RowCourse(row) ==
    [title       |-> Strip(row.cells[1]),
     creditUnits |-> FirstInteger(Strip(row.cells[2]))]

parse_table_courses(table) ==
    LET kept == Places(table.rows,
                       {i \in CourseRows(table) : RowParsed(table.rows[i])})
    IN  [k \in DOMAIN kept |-> RowCourse(table.rows[kept[k]])]

-----------------------------------------------------------------------------
(* MivaCourseScraper._detect_table_semester                                 *)

\* "1st semester"
Key1stSemester ==
    <<"1", "s", "t", " ", "s", "e", "m", "e", "s", "t", "e", "r">>
\* "first semester"
KeyFirstSemester ==
    <<"f", "i", "r", "s", "t", " ", "s", "e", "m", "e", "s", "t", "e", "r">>
\* "2nd semester"
Key2ndSemester ==
    <<"2", "n", "d", " ", "s", "e", "m", "e", "s", "t", "e", "r">>
\* "second semester"
KeySecondSemester ==
    <<"s", "e", "c", "o", "n", "d", " ", "s", "e", "m", "e", "s", "t", "e",
      "r">>
\* "rain semester"
KeyRainSemester ==
    <<"r", "a", "i", "n", " ", "s", "e", "m", "e", "s", "t", "e", "r">>

NoSemester == "None"

\* the if / elif chain on one lower-cased text
SemesterKeyword(text) ==
    IF Contains(text, Key1stSemester) \/ Contains(text, KeyFirstSemester)
    THEN "first"
    ELSE IF Contains(text, Key2ndSemester) \/ Contains(text, KeySecondSemester)
    THEN "second"
    ELSE IF Contains(text, KeyRainSemester)
    THEN "rain"
    ELSE NoSemester

\* the first text of a list that names a semester decides
RECURSIVE FirstKeyword(_)
FirstKeyword(texts) ==
    IF texts = <<>> THEN NoSemester
    ELSE IF SemesterKeyword(Lower(Strip(Head(texts)))) # NoSemester
    THEN SemesterKeyword(Lower(Strip(Head(texts))))
    ELSE FirstKeyword(Tail(texts))

\* table.previous_siblings: the strings before the table, the nearest first
PreviousStrings(content, at) ==
    LET before == Places(content, {i \in 1..(at - 1) :
                                      /\ content[i].kind = "string"
                                      /\ content[i].string # <<>>})
    IN  [k \in DOMAIN before |-> content[before[Len(before) + 1 - k]].string]

\* table.find('tr'): the row of the thead, else the first row of the body
FirstRowText(table) ==
    IF table.thead # <<>> THEN JoinStripped(table.thead)
    ELSE IF table.rows # <<>> THEN JoinStripped(table.rows[1].cells)
    ELSE <<>>

\* content[at] is the table, table_index its place among the tables read
detect_table_semester(content, at, table_index) ==
    LET table      == content[at]
        by_sibling == FirstKeyword(PreviousStrings(content, at))
        by_header  == FirstKeyword(table.thead)
        by_row     == SemesterKeyword(Lower(FirstRowText(table)))
    IN  IF by_sibling # NoSemester THEN by_sibling
        ELSE IF by_header # NoSemester THEN by_header
        ELSE IF by_row # NoSemester THEN by_row
        ELSE IF table_index = 0 THEN "first"
        ELSE IF table_index = 1 THEN "second"
        ELSE NoSemester

-----------------------------------------------------------------------------
(* MivaCourseScraper._extract_courses_from_tables                           *)

\* the tables of class curriculum-table, or every table when there is none
TablesRead(content) ==
    LET tables     == {i \in DOMAIN content : content[i].kind = "table"}
        curriculum == {i \in tables : content[i].curriculum}
    IN  Places(content, IF curriculum # {} THEN curriculum ELSE tables)

\* the rows of the tables of one semester, in the order the tables come
RECURSIVE SemesterCourses(_, _, _, _)
SemesterCourses(content, tables, k, semester) ==
    IF k > Len(tables) THEN <<>>
    ELSE (IF detect_table_semester(content, tables[k], k - 1) = semester
          THEN parse_table_courses(content[tables[k]])
          ELSE <<>>)
         \o SemesterCourses(content, tables, k + 1, semester)

extract_courses_from_tables(content) ==
    LET tables    == TablesRead(content)
        semesters == {detect_table_semester(content, tables[k], k - 1) :
                         k \in DOMAIN tables} \ {NoSemester}
    IN  [sem \in semesters |-> SemesterCourses(content, tables, 1, sem)]

-----------------------------------------------------------------------------
(* MivaCourseScraper.scrape_department_page                                 *)

\* "level"
KeyLevel ==
    <<"l", "e", "v", "e", "l">>

\* re.search(r'\b([12345])00\s*level\b', title_text, re.IGNORECASE) matches
\* with its digit at the place i
RECURSIVE SkipSpaces(_, _)
SkipSpaces(text, i) ==
    IF i <= Len(text) /\ text[i] \in Whitespace THEN SkipSpaces(text, i + 1) ELSE i

LevelMatchesAt(text, i) ==
    /\ i + 2 <= Len(text)
    /\ text[i] \in {"1", "2", "3", "4", "5"}
    /\ text[i + 1] = "0"
    /\ text[i + 2] = "0"
    /\ i = 1 \/ ~IsWordChar(text[i - 1])
    /\ LET word == SkipSpaces(text, i + 3)
       IN  /\ MatchesAt(Lower(text), KeyLevel, word - 1)
           /\ word + 5 > Len(text) \/ ~IsWordChar(text[word + 5])

\* the level of an accordion title, NoLevel when the pattern is not found
NoLevel == "None"

LevelOf(title) ==
    LET text    == Strip(title)
        matches == {i \in DOMAIN text : LevelMatchesAt(text, i)}
    IN  IF matches = {} THEN NoLevel
        ELSE text[Head(Sorted(matches))] \o "00"

\* the accordions that give a level its courses; a later one replaces an
\* earlier one of the same level
LevelAccordions(page) ==
    {a \in DOMAIN page.accordions :
        /\ LevelOf(page.accordions[a].title) # NoLevel
        /\ DOMAIN extract_courses_from_tables(page.accordions[a].content) # {}}

scrape_department_page(page) ==
    IF page.status # "ok" THEN EmptyDict
    ELSE LET used   == LevelAccordions(page)
             levels == {LevelOf(page.accordions[a].title) : a \in used}
             last(l) == CHOOSE a \in used :
                           /\ LevelOf(page.accordions[a].title) = l
                           /\ \A b \in used :
                                 LevelOf(page.accordions[b].title) = l => b <= a
         IN  [l \in levels |->
                 extract_courses_from_tables(page.accordions[last(l)].content)]

-----
(* Catalog inputs.  A catalog is {'metadata': {...}, 'faculties': {...}};   *)
(* a department is {'name', 'url', 'courses'}; courses maps a level to a    *)
(* mapping from a semester to a list of {'title', 'creditUnits'}.           *)

MaxDepts == 2        \* departments in a catalog drawn as input

Course(title, units) == [title |-> title, creditUnits |-> units]

CourseA == Course("Intro to Programming", 3)
CourseB == Course("Calculus I", 4)

\* courses subtrees: a semester with no row, one course, the same with the
\* course replaced, four courses over two levels and two semesters
TreeOne   == "100" :> ("first" :> <<CourseA>>)
TreeEdit  == "100" :> ("first" :> <<CourseB>>)
TreeFour  == ("100" :> ("first" :> <<CourseA>> @@ "second" :> <<CourseB>>))
             @@ ("200" :> ("first" :> <<CourseA, CourseB>>))
TreeBare  == "100" :> ("first" :> <<>>)

CourseTrees == {TreeBare, TreeOne, TreeEdit, TreeFour}

FacultyNames == <<"School of Computing", "School of Communication">>
DeptCodes    == {"CSC", "MAC"}

DeptName(code) == IF code = "CSC" THEN "Computer Science" ELSE "Mass Communication"
DeptUrl(code)  == IF code = "CSC" THEN "/computer-science" ELSE "/mass-communication"

Department(name, url, courses) == [name |-> name, url |-> url, courses |-> courses]

Metadata(stamp) == [version |-> "2.0.0", lastUpdated |-> stamp]

\* a placement gives some (faculty, code) places a courses subtree
CatalogPlaces == (DOMAIN FacultyNames) \X DeptCodes

Placements ==
    UNION {[P -> CourseTrees] : P \in {Q \in SUBSET CatalogPlaces : Cardinality(Q) <= MaxDepts}}

CatalogOf(placement, stamp) ==
    [metadata  |-> Metadata(stamp),
     faculties |->
        [i \in DOMAIN FacultyNames |->
            [name        |-> FacultyNames[i],
             departments |->
                [c \in {d \in DeptCodes : <<i, d>> \in DOMAIN placement} |->
                    Department(DeptName(c), DeptUrl(c), placement[<<i, c>>])]]]]

Catalogs == {CatalogOf(p, 0) : p \in Placements}

-----------------------------------------------------------------------------
(* AutoUpdateSystem._calculate_hash                                        *)

\* json.dumps(faculties, sort_keys=True): the text is decided by the
\* mapping alone, whatever the order its keys were inserted in
DumpsCoursesOnly(faculties) ==
    [n \in OrderedKeys(faculties) |->
        [departments |->
            [c \in DOMAIN faculties[OrderedGet(faculties, n)].departments |->
                faculties[OrderedGet(faculties, n)].departments[c].courses]]]

DumpsSorted(faculties) ==
    [n \in OrderedKeys(faculties) |->
        [departments |-> faculties[OrderedGet(faculties, n)].departments]]

\* SHA-256 is taken to be free of collisions: a digest is the one-element
\* sequence of the text it was taken of, and '' is the empty sequence
NoHash == <<>>

HashOfWholeData(data) ==
    <<[metadata  |-> Get(data, "metadata", EmptyDict),
       faculties |-> DumpsSorted(Get(data, "faculties", <<>>))]>>

calculate_hash(data) ==
    <<DumpsSorted(Get(data, "faculties", <<>>))>>

\* run_update: new_full_data.setdefault('metadata', {})['content_hash'] = new_hash
StoreHash(data, hash) ==
    [k \in DOMAIN data \cup {"metadata"} |->
        IF k = "metadata"
        THEN ("content_hash" :> hash) @@ Get(data, "metadata", EmptyDict)
        ELSE data[k]]

-----------------------------------------------------------------------------
(* AutoUpdateSystem._get_flat_depts                                        *)

\* the faculties are visited in order and a later faculty's department
\* replaces an earlier one with the same code
get_flat_depts(full_data) ==
    LET faculties == Get(full_data, "faculties", <<>>)
        codes     == UNION {DOMAIN faculties[i].departments : i \in DOMAIN faculties}
        last(c)   == CHOOSE i \in DOMAIN faculties :
                        /\ c \in DOMAIN faculties[i].departments
                        /\ \A j \in DOMAIN faculties :
                              c \in DOMAIN faculties[j].departments => j <= i
    IN  [c \in codes |->
            [name    |-> faculties[last(c)].departments[c].name,
             courses |-> faculties[last(c)].departments[c].courses]]

-----------------------------------------------------------------------------------------------------------------------------------------------------
(* AutoUpdateSystem._detect_changes                                        *)

RECURSIVE SumDepts(_, _)
SumDepts(depts, codes) ==
    IF codes = {} THEN 0
    ELSE LET c == CHOOSE c \in codes : TRUE
         IN  CountCourses(depts[c].courses) + SumDepts(depts, codes \ {c})

NoChanges ==
    [new_departments      |-> {},
     modified_departments |-> {},
     new_courses          |-> 0,
     modified_courses     |-> 0]

\* first run: sum(sum(len(sem) for sem in level.values())
\*                for dept in new_depts.values() for level in courses.values())
FirstRunSemesters(new_depts) ==
    Cardinality({<<c, l, s>> \in
        (DOMAIN new_depts) \X {"100", "200"} \X {"first", "second"} :
            /\ l \in DOMAIN new_depts[c].courses
            /\ s \in DOMAIN new_depts[c].courses[l]})

FirstRunCourses(new_depts) == SumDepts(new_depts, DOMAIN new_depts)

\* first run: every department is new, if the settings ask for an entry
FirstRunChanges(new_depts) ==
    IF settings.CREATE_INITIAL_CHANGELOG
    THEN [NoChanges EXCEPT
             !.new_departments = DOMAIN new_depts,
             !.new_courses     = FirstRunCourses(new_depts)]
    ELSE NoChanges

\* the departments of the new catalog the old one does not hold
AddedIncludingKept(old_depts, new_depts) == DOMAIN new_depts

AddedDepartments(old_depts, new_depts) ==
    {c \in DOMAIN new_depts : c \notin DOMAIN old_depts}

\* a department of both catalogs is modified when the sorted dumps of its
\* courses differ
AlwaysModified(old_dept, new_dept) == TRUE

IsModified(old_dept, new_dept) == old_dept.courses # new_dept.courses

\* diff = new_count - old_count
CountDiffSwapped(old_dept, new_dept) ==
    CountCourses(old_dept.courses) - CountCourses(new_dept.courses)

CountDiff(old_dept, new_dept) ==
    CountCourses(new_dept.courses) - CountCourses(old_dept.courses)

RECURSIVE SumAdded(_, _, _)
SumAdded(old_depts, new_depts, codes) ==
    IF codes = {} THEN 0
    ELSE LET c    == CHOOSE c \in codes : TRUE
             diff == CountDiff(old_depts[c], new_depts[c])
         IN  (IF diff > 0 THEN diff ELSE 0)
             + SumAdded(old_depts, new_depts, codes \ {c})

RECURSIVE SumRemoved(_, _, _)
SumRemoved(old_depts, new_depts, codes) ==
    IF codes = {} THEN 0
    ELSE LET c    == CHOOSE c \in codes : TRUE
             diff == CountDiff(old_depts[c], new_depts[c])
         IN  (IF diff < 0 THEN 0 - diff ELSE 0)
             + SumRemoved(old_depts, new_depts, codes \ {c})

\* _detect_changes that also counts the courses of the departments the new
\* catalog no longer holds
detect_changes_and_removals(old, new) ==
    LET old_depts == get_flat_depts(old)
        new_depts == get_flat_depts(new)
    IN  IF DOMAIN old_depts = {}
        THEN FirstRunChanges(new_depts)
        ELSE LET added    == AddedDepartments(old_depts, new_depts)
                 modified == {c \in DOMAIN new_depts :
                                 /\ c \in DOMAIN old_depts
                                 /\ c \notin added
                                 /\ IsModified(old_depts[c], new_depts[c])}
                 removed  == {c \in DOMAIN old_depts : c \notin DOMAIN new_depts}
             IN  [new_departments      |-> added,
                  modified_departments |-> modified,
                  new_courses          |-> SumDepts(new_depts, added)
                                           + SumAdded(old_depts, new_depts, modified),
                  modified_courses     |-> SumRemoved(old_depts, new_depts, modified)
                                           + SumDepts(old_depts, removed)]

\* the two lists hold keys of a dict, each at most once: they are kept as sets
detect_changes(old, new) ==
    LET old_depts == get_flat_depts(old)
        new_depts == get_flat_depts(new)
    IN  IF DOMAIN old_depts = {}
        THEN FirstRunChanges(new_depts)
        ELSE LET added    == AddedDepartments(old_depts, new_depts)
                 modified == {c \in DOMAIN new_depts :
                                 /\ c \in DOMAIN old_depts
                                 /\ c \notin added
                                 /\ IsModified(old_depts[c], new_depts[c])}
             IN  [new_departments      |-> added,
                  modified_departments |-> modified,
                  new_courses          |-> SumDepts(new_depts, added)
                                           + SumAdded(old_depts, new_depts, modified),
                  modified_courses     |-> SumRemoved(old_depts, new_depts, modified)]

-----
(* MivaCourseScraper.scrape_faculties_page                                  *)
(*                                                                          *)
(*   response  [status, sections]     status "ok", or the request failed    *)
(*   section   [heading, text, list, items]                                 *)
(*                                    a faculties-child div: whether it has *)
(*                                    an h2 heading, the heading's text,    *)
(*                                    whether a list follows it, the list   *)
(*                                    items in order                        *)
(*   item      [link, text, href]     whether the li holds an a, the li's   *)
(*                                    text, the a's href                    *)

\* "school"
KeySchool ==
    <<"s", "c", "h", "o", "o", "l">>

Section(heading, text, list, items) ==
    [heading |-> heading, text |-> text, list |-> list, items |-> items]

Item(link, text, href) == [link |-> link, text |-> text, href |-> href]

\* the departments of one list: the items that hold a link
ListedDepartments(items) ==
    LET linked == Places(items, {i \in DOMAIN items : items[i].link})
    IN  [k \in DOMAIN linked |->
            [name |-> Strip(items[linked[k]].text),
             code |-> extract_dept_code(Strip(items[linked[k]].text),
                                        items[linked[k]].href),
             url  |-> items[linked[k]].href]]

\* a falsy list of faculties when the request fails
scrape_faculties_page(response) ==
    IF response.status # "ok" THEN <<>>
    ELSE LET sections == response.sections
             found == Places(sections,
                         {i \in DOMAIN sections :
                             /\ sections[i].heading
                             /\ Contains(Lower(sections[i].text), KeySchool)
                             /\ sections[i].list})
         IN  [k \in DOMAIN found |->
                 [name        |-> Strip(sections[found[k]].text),
                  departments |-> ListedDepartments(sections[found[k]].items)]]

-----
(* MivaCourseScraper.__init__ and scrape_all                                *)

\* "https://miva.edu.ng"
base_url ==
    <<"h", "t", "t", "p", "s", ":", "/", "/", "m", "i", "v", "a", ".", "e",
      "d", "u", ".", "n", "g">>

\* "https://miva.edu.ng"
faculties_url ==
    <<"h", "t", "t", "p", "s", ":", "/", "/", "m", "i", "v", "a", ".", "e",
      "d", "u", ".", "n", "g">>

\* __init__: the catalog of a new scraper
NewCoursesData(now) == [metadata |-> Metadata(now), faculties |-> <<>>]

\* dept_url.startswith('/'): a relative url is put after base_url
ResolveUrl(dept_url) ==
    IF MatchesAt(dept_url, <<"/">>, 0) THEN base_url \o dept_url ELSE dept_url

\* the head of `for faculty in faculties`, from faculty fi to the next
\* department to fetch: every faculty passed gets {'departments': {}}
RECURSIVE EnterFaculty(_, _, _)
EnterFaculty(data, found, fi) ==
    IF fi > Len(found) THEN [courses_data |-> data, faculty_index |-> fi]
    ELSE LET entered ==
                 [data EXCEPT !.faculties =
                     OrderedSet(@, found[fi].name, EmptyDict)]
         IN  IF found[fi].departments = <<>>
             THEN EnterFaculty(entered, found, fi + 1)
             ELSE [courses_data |-> entered, faculty_index |-> fi]

\* courses_data['found_faculties'][faculty_name]['departments'][dept_code] = {...}
StoreDepartment(data, faculty_name, dept_code, department) ==
    LET held == data.faculties[OrderedGet(data.faculties, faculty_name)].departments
    IN  [data EXCEPT !.faculties =
            OrderedSet(@, faculty_name,
                [c \in DOMAIN held \cup {dept_code} |->
                    IF c = dept_code THEN department ELSE held[c]])]

\* scrape_all, to its first request: the root page
Discover(roots) ==
    /\ pc = "scrape_all"
    /\ \E response \in roots :
       \E found \in {scrape_faculties_page(response)} :
          /\ found_faculties' = found
          /\ requests' = Append(requests, faculties_url)
          /\ responses' = Append(responses, response.status)
          /\ total_departments' = 0
          /\ total_courses' = 0
          /\ IF found = <<>>
             THEN /\ pc' = "scraped"
                  /\ UNCHANGED <<courses_data, faculty_index>>
             ELSE \E next \in {EnterFaculty(courses_data, found, 1)} :
                     /\ courses_data' = next.courses_data
                     /\ faculty_index' = next.faculty_index
                     /\ pc' = IF next.faculty_index > Len(found)
                              THEN "scraped" ELSE "department"
    /\ dept_index' = 1
    /\ UNCHANGED <<settings, updateVars, results, document, found_courses>>

\* one turn of `for dept in faculty['departments']`, and the loop heads up
\* to the next request or to the return
ScrapeDepartment(pages) ==
    /\ pc = "department"
    /\ \E response \in pages :
       \E found \in {scrape_department_page(response)} :
          LET faculty  == found_faculties[faculty_index]
              dept     == faculty.departments[dept_index]
              dept_url == ResolveUrl(dept.url)
              last     == dept_index = Len(faculty.departments)
          IN  /\ requests' = Append(requests, dept_url)
              /\ responses' = Append(responses, response.status)
              /\ results' = Append(results, found)
              /\ found_courses' = found
              /\ total_departments' =
                    total_departments + (IF found # EmptyDict THEN 1 ELSE 0)
              /\ total_courses' = total_courses + CountCourses(found)
              /\ dept_index' = IF last THEN 1 ELSE dept_index + 1
              /\ \E stored \in {IF found # EmptyDict
                                THEN StoreDepartment(courses_data, faculty.name,
                                         dept.code,
                                         Department(dept.name, dept_url, found))
                                ELSE courses_data} :
                 \E next \in {IF last
                              THEN EnterFaculty(stored, found_faculties,
                                                faculty_index + 1)
                              ELSE [courses_data  |-> stored,
                                    faculty_index |-> faculty_index]} :
                    /\ courses_data' = next.courses_data
                    /\ faculty_index' = next.faculty_index
                    /\ pc' = IF next.faculty_index > Len(found_faculties)
                             THEN "scraped" ELSE "department"
    /\ UNCHANGED <<settings, updateVars, found_faculties, document>>

-----
(* AutoUpdateSystem._load_json and _save_json                               *)
(*                                                                          *)
(* A file is absent, holds text that is not JSON, or holds a JSON value.    *)

AbsentFile == [kind |-> "absent"]

InvalidFile == [kind |-> "invalid"]

JsonFile(data) == [kind |-> "json", data |-> data]

\* {} for a file that is absent, is not JSON or cannot be read
load_json(file, io_error) ==
    IF file.kind = "json" /\ ~io_error THEN file.data ELSE EmptyDict

\* an IOError is logged and swallowed: open(filepath, 'w') failed and the
\* file is as it was, or the write failed after the file was truncated
SaveOutcomes == {"written", "open_failed", "write_failed"}

save_json(data, file, outcome) ==
    IF outcome = "written" THEN JsonFile(data)
    ELSE IF outcome = "open_failed" THEN file
    ELSE InvalidFile

-----
(* AutoUpdateSystem._update_changelog                                       *)
(*                                                                          *)
(* The text of the changelog is a sequence of tokens: the newline, and the  *)
(* text of a line or of a run of lines none of which starts with "## ":     *)
(*   [kind |-> "nl"]                  "\n"                                  *)
(*   [kind |-> "h1"]                  "# Course Database Changelog"         *)
(*   [kind |-> "h2", timestamp]       "## Update - {timestamp}"             *)
(*   [kind |-> "section", ...]        a "### ..." line and its "- {dept}"   *)
(*                                    lines                                 *)
(*   [kind |-> "text"]                lines the program did not write       *)

AbsentChangelog == [exists |-> FALSE, content |-> <<>>]

NewLine == [kind |-> "nl"]

\* "# Course Database Changelog\n"
TitleBlock == <<[kind |-> "h1"], NewLine>>

\* one section of an entry, printed when the value is not empty or zero:
\* the "### ..." line, the lines of the departments, "\n" and "\n"
SectionBlock(title, value, printed) ==
    IF printed
    THEN <<[kind |-> "section", title |-> title, value |-> value], NewLine, NewLine>>
    ELSE <<>>

\* entry = "\n## Update - {timestamp}\n\n" and the sections
EntryBlock(diff, now) ==
    <<NewLine, [kind |-> "h2", timestamp |-> now], NewLine, NewLine>>
    \o SectionBlock("New Departments", diff.new_departments,
                    diff.new_departments # {})
    \o SectionBlock("Modified Departments", diff.modified_departments,
                    diff.modified_departments # {})
    \o SectionBlock("New Courses Added (Approx.)", diff.new_courses,
                    diff.new_courses # 0)
    \o SectionBlock("Courses Modified/Removed (Approx.)", diff.modified_courses,
                    diff.modified_courses # 0)

IsEmptyDiffButModified(diff) ==
    /\ diff.new_departments = {}
    /\ diff.new_courses = 0
    /\ diff.modified_courses = 0

\* not any(...) and not changes['modified_courses']
IsEmptyDiff(diff) ==
    /\ diff.new_departments = {}
    /\ diff.modified_departments = {}
    /\ diff.new_courses = 0
    /\ diff.modified_courses = 0

InsertEntryAtEnd(content, entry) == content \o entry

\* content.find('\n## '): the entry goes before the first newline that an
\* H2 line follows, else at the end
InsertEntry(content, entry) ==
    LET h2 == {i \in DOMAIN content :
                  /\ content[i] = NewLine
                  /\ i < Len(content)
                  /\ content[i + 1].kind = "h2"}
    IN  IF h2 = {} THEN content \o entry
        ELSE LET first_h2 == Head(Sorted(h2))
             IN  SubSeq(content, 1, first_h2 - 1) \o entry
                 \o SubSeq(content, first_h2, Len(content))

update_changelog(diff, file, now) ==
    IF IsEmptyDiff(diff) THEN file
    ELSE IF file.exists
    THEN [exists |-> TRUE, content |-> InsertEntry(file.content, EntryBlock(diff, now))]
    ELSE [exists |-> TRUE, content |-> TitleBlock \o EntryBlock(diff, now)]

-----
(* AutoUpdateSystem.run_update                                              *)

MaxRuns == 2         \* runs of run_update in a behaviour

\* if not new_full_data.get('found_faculties')
NoDataNever(new_full_data) == FALSE

NoData(new_full_data) == Get(new_full_data, "faculties", <<>>) = <<>>

\* has_changes = bool(not old_data or old_hash != new_hash)
HasChangesNeedsOldData(old, old_digest, new_digest) ==
    old # EmptyDict /\ old_digest # new_digest

HasChanges(old, old_digest, new_digest) ==
    old = EmptyDict \/ old_digest # new_digest

\* a scraper at rest: the values of a new MivaCourseScraper
ScraperAtRest(now) ==
    /\ courses_data = NewCoursesData(now)
    /\ found_faculties = <<>>
    /\ faculty_index = 1
    /\ dept_index = 1
    /\ total_departments = 0
    /\ total_courses = 0
    /\ requests = <<>>
    /\ responses = <<>>
    /\ results = <<>>
    /\ found_courses = EmptyDict

\* run_update before any run
UpdaterAtRest ==
    /\ old_data = EmptyDict
    /\ new_data = EmptyDict
    /\ old_hash = NoHash
    /\ new_hash = NoHash
    /\ changes = NoChanges
    /\ has_changes = FALSE

\* lines 178-190: the old catalog and its digest are read, a scraper is made
StartRun ==
    /\ pc = "idle"
    /\ clock < MaxRuns
    /\ clock' = clock + 1
    /\ \E io_error \in BOOLEAN :
          /\ old_data' = load_json(full_data_file, io_error)
          /\ old_hash' = Get(Get(load_json(full_data_file, io_error),
                                 "metadata", EmptyDict), "content_hash", NoHash)
    /\ new_data' = EmptyDict
    /\ new_hash' = NoHash
    /\ changes' = NoChanges
    /\ has_changes' = FALSE
    /\ courses_data' = NewCoursesData(clock + 1)
    /\ found_faculties' = <<>>
    /\ faculty_index' = 1
    /\ dept_index' = 1
    /\ total_departments' = 0
    /\ total_courses' = 0
    /\ requests' = <<>>
    /\ responses' = <<>>
    /\ results' = <<>>
    /\ found_courses' = EmptyDict
    /\ pc' = "scrape_all"
    /\ UNCHANGED <<settings, full_data_file, changelog_file, document>>

\* lines 191-199: the call raises and the run returns False.  run_update
\* calls scraper.scrape_all() with no url, which the scrape_all(self,
\* faculties_url) of src/scrape_courses.py answers with a TypeError; called
\* with its url the scrape goes on to Discover
ScrapeRaises ==
    /\ pc = "scrape_all"
    /\ has_changes' = FALSE
    /\ pc' = "idle"
    /\ UNCHANGED <<settings, full_data_file, changelog_file, clock, old_data,
                   new_data, old_hash, new_hash, changes, scrapeVars>>

\* lines 201-234, from the return of scrape_all to the return of run_update
FinishRun ==
    /\ pc = "scraped"
    /\ pc' = "idle"
    /\ IF NoData(courses_data)
       THEN /\ has_changes' = FALSE
            /\ new_data' = courses_data
            /\ UNCHANGED <<new_hash, changes, full_data_file, changelog_file>>
       ELSE LET digest == calculate_hash(courses_data)
                differ == HasChanges(old_data, old_hash, digest)
                diff   == detect_changes(old_data, courses_data)
                stored == StoreHash(courses_data, digest)
            IN  /\ new_hash' = digest
                /\ has_changes' = differ
                /\ IF differ
                   THEN /\ changes' = diff
                        /\ changelog_file' = update_changelog(diff, changelog_file, clock)
                        /\ new_data' = stored
                        /\ \E outcome \in SaveOutcomes :
                              full_data_file' = save_json(stored, full_data_file, outcome)
                   ELSE /\ new_data' = courses_data
                        /\ UNCHANGED <<changes, changelog_file>>
                        /\ IF settings.ALWAYS_SAVE_FULL_DATA
                           THEN \E outcome \in SaveOutcomes :
                                   full_data_file' =
                                       save_json(courses_data, full_data_file, outcome)
                           ELSE UNCHANGED full_data_file
    /\ UNCHANGED <<settings, clock, old_data, old_hash, scrapeVars>>

-----
(* The site: the responses the root url and the department urls can give    *)

Accordion(title, content) == [title |-> title, content |-> content]

DeptPage(accordions) == [status |-> "ok", accordions |-> accordions]

\* the request failed: a network error or an HTTP error status
PageDown == [status |-> "failed", accordions |-> <<>>]

\* a page without accordions
PageEmpty == DeptPage(<<>>)

\* 100 Level with a table for each semester, told by their places
PageIntro ==
    DeptPage(<<Accordion(<<"1", "0", "0", " ", "L", "e", "v", "e", "l">>,
        <<TableNode(FALSE, <<>>, <<Row(TRUE, <<<<"I", "n", "t", "r", "o", " ", "t", "o", " ", "P", "r", "o", "g", "r", "a", "m", "m", "i", "n", "g">>, <<"3", " ", "U", "n", "i", "t", "s">>>>)>>),
          TableNode(FALSE, <<>>, <<Row(TRUE, <<<<"C", "a", "l", "c", "u", "l", "u", "s", " ", "I">>, <<"4", " ", "U", "n", "i", "t", "s">>>>)>>)>>)>>)

\* 100 Level with one table marked "2nd Semester" and 200 Level with one
\* table of two courses
PageOther ==
    DeptPage(<<Accordion(<<"1", "0", "0", " ", "L", "e", "v", "e", "l">>,
        <<StringNode(<<" ", "2", "n", "d", " ", "S", "e", "m", "e", "s", "t", "e", "r", " ">>),
          TableNode(TRUE, <<>>, <<Row(TRUE, <<<<"M", "e", "d", "i", "a", " ", "W", "r", "i", "t", "i", "n", "g">>, <<"2", " ", "U", "n", "i", "t", "s">>>>)>>)>>),
      Accordion(<<"2", "0", "0", " ", "L", "E", "V", "E", "L">>,
        <<TableNode(FALSE, <<<<"C", "o", "u", "r", "s", "e">>, <<"U", "n", "i", "t", "s">>>>,
            <<Row(FALSE, <<<<"N", "e", "w", "s", " ", "R", "e", "p", "o", "r", "t", "i", "n", "g">>, <<"3">>>>),
              Row(FALSE, <<<<"M", "e", "d", "i", "a", " ", "L", "a", "w">>, <<"2", " ", "u", "n", "i", "t", "s">>>>)>>)>>)>>)

\* 200 Level with a table that holds no course row
PageBare ==
    DeptPage(<<Accordion(<<"2", "0", "0", " ", "L", "e", "v", "e", "l">>,
        <<TableNode(FALSE, <<<<"C", "o", "u", "r", "s", "e">>, <<"U", "n", "i", "t", "s">>>>, <<>>)>>)>>)

\* 100 Level with a course of zero units
PageZero ==
    DeptPage(<<Accordion(<<"1", "0", "0", " ", "L", "e", "v", "e", "l">>,
        <<TableNode(FALSE, <<>>, <<Row(TRUE, <<<<"S", "e", "m", "i", "n", "a", "r">>, <<"0", " ", "U", "n", "i", "t", "s">>>>)>>)>>)>>)

RootPage(sections) == [status |-> "ok", sections |-> sections]

RootDown == [status |-> "failed", sections |-> <<>>]

\* a page whose only section is not a school
RootPlain ==
    RootPage(<<Section(TRUE, <<"O", "u", "r", " ", "P", "r", "o", "g", "r", "a", "m", "m", "e", "s">>, TRUE,
        <<Item(TRUE, <<"C", "o", "m", "p", "u", "t", "e", "r", " ", "S", "c", "i", "e", "n", "c", "e">>, <<"/", "c", "o", "m", "p", "u", "t", "e", "r", "-", "s", "c", "i", "e", "n", "c", "e", "/">>)>>)>>)

SectionComputing ==
    Section(TRUE, <<" ", "S", "c", "h", "o", "o", "l", " ", "o", "f", " ", "C", "o", "m", "p", "u", "t", "i", "n", "g", " ">>, TRUE,
        <<Item(TRUE, <<"C", "o", "m", "p", "u", "t", "e", "r", " ", "S", "c", "i", "e", "n", "c", "e">>, <<"/", "c", "o", "m", "p", "u", "t", "e", "r", "-", "s", "c", "i", "e", "n", "c", "e", "/">>)>>)

SectionCommunication ==
    Section(TRUE, <<"S", "c", "h", "o", "o", "l", " ", "o", "f", " ", "C", "o", "m", "m", "u", "n", "i", "c", "a", "t", "i", "o", "n">>, TRUE,
        <<Item(TRUE, <<"M", "a", "s", "s", " ", "C", "o", "m", "m", "u", "n", "i", "c", "a", "t", "i", "o", "n">>, <<"h", "t", "t", "p", "s", ":", "/", "/", "m", "i", "v", "a", ".", "e", "d", "u", ".", "n", "g", "/", "m", "a", "s", "s", "-", "c", "o", "m", "m", "u", "n", "i", "c", "a", "t", "i", "o", "n", "/">>)>>)

\* two departments the code table gives the code MAC
SectionMedia ==
    Section(TRUE, <<"S", "c", "h", "o", "o", "l", " ", "o", "f", " ", "C", "o", "m", "m", "u", "n", "i", "c", "a", "t", "i", "o", "n">>, TRUE,
        <<Item(TRUE, <<"M", "a", "s", "s", " ", "C", "o", "m", "m", "u", "n", "i", "c", "a", "t", "i", "o", "n">>, <<"/", "m", "a", "s", "s", "-", "c", "o", "m", "m", "u", "n", "i", "c", "a", "t", "i", "o", "n", "/">>),
          Item(TRUE, <<"C", "o", "m", "m", "u", "n", "i", "c", "a", "t", "i", "o", "n", " ", "a", "n", "d", " ", "M", "e", "d", "i", "a", " ", "S", "t", "u", "d", "i", "e", "s">>, <<"/", "c", "o", "m", "m", "u", "n", "i", "c", "a", "t", "i", "o", "n", "-", "a", "n", "d", "-", "m", "e", "d", "i", "a", "-", "s", "t", "u", "d", "i", "e", "s", "/">>)>>)

\* two departments out of the code table with the acronym AP, and an item
\* without a link
SectionScience ==
    Section(TRUE, <<"S", "c", "h", "o", "o", "l", " ", "o", "f", " ", "S", "c", "i", "e", "n", "c", "e">>, TRUE,
        <<Item(TRUE, <<"A", "p", "p", "l", "i", "e", "d", " ", "P", "h", "y", "s", "i", "c", "s">>, <<"/", "p", "r", "o", "g", "r", "a", "m", "m", "e", "s", "/", "b", "s", "c", "-", "1", "/">>),
          Item(FALSE, <<"A", "d", "m", "i", "s", "s", "i", "o", "n", "s">>, <<>>),
          Item(TRUE, <<"A", "n", "i", "m", "a", "l", " ", "P", "r", "o", "d", "u", "c", "t", "i", "o", "n">>, <<"/", "p", "r", "o", "g", "r", "a", "m", "m", "e", "s", "/", "b", "s", "c", "-", "2", "/">>)>>)

\* a school without a list, and a section without a heading
SectionLaw == Section(TRUE, <<"S", "c", "h", "o", "o", "l", " ", "o", "f", " ", "L", "a", "w">>, FALSE, <<>>)

SectionBanner == Section(FALSE, <<>>, TRUE, <<>>)

RootSmall == RootPage(<<SectionComputing>>)

RootSite == RootPage(<<SectionComputing, SectionCommunication>>)

RootMedia == RootPage(<<SectionBanner, SectionComputing, SectionMedia>>)

RootScience == RootPage(<<SectionLaw, SectionScience>>)

\* a page whose only school has no list
RootLaw == RootPage(<<SectionLaw, SectionBanner>>)

\* the site run_update is followed on
Roots == {RootDown, RootPlain, RootSmall, RootSite}

Pages == {PageDown, PageIntro, PageOther}

\* the site scrape_all is followed on
AllRoots == Roots \cup {RootMedia, RootScience, RootLaw}

AllPages == Pages \cup {PageEmpty, PageBare, PageZero}

-----
(* Runs of run_update, one after the other, over the files they leave       *)

Init ==
    /\ settings \in [CREATE_INITIAL_CHANGELOG : BOOLEAN, ALWAYS_SAVE_FULL_DATA : BOOLEAN]
    /\ pc = "idle"
    /\ full_data_file \in {AbsentFile, InvalidFile}
    /\ changelog_file \in {AbsentChangelog, [exists |-> TRUE, content |-> TitleBlock]}
    /\ clock = 0
    /\ UpdaterAtRest
    /\ ScraperAtRest(0)
    /\ document = PageEmpty

DiscoverSite == Discover(Roots)

ScrapeSiteDepartment == ScrapeDepartment(Pages)

Next ==
    \/ StartRun
    \/ ScrapeRaises
    \/ DiscoverSite
    \/ ScrapeSiteDepartment
    \/ FinishRun

Spec == Init /\ [][Next]_vars

-----
(* scrape_all applied to every site                                         *)

InitScrape ==
    /\ settings = [CREATE_INITIAL_CHANGELOG |-> TRUE, ALWAYS_SAVE_FULL_DATA |-> FALSE]
    /\ pc = "scrape_all"
    /\ full_data_file = AbsentFile
    /\ changelog_file = AbsentChangelog
    /\ clock = 1
    /\ UpdaterAtRest
    /\ ScraperAtRest(1)
    /\ document = PageEmpty

DiscoverAny == Discover(AllRoots)

ScrapeAnyDepartment == ScrapeDepartment(AllPages)

NextScrape == DiscoverAny \/ ScrapeAnyDepartment

SpecScrape == InitScrape /\ [][NextScrape]_vars

-----
(* scrape_department_page applied to pages of one table                     *)

MaxRows == 2         \* rows of a table drawn as input

RowTitles ==
    {<<"C", "a", "l", "c", "u", "l", "u", "s", " ", "I">>, <<"L", "a", "b">>, <<" ", " ">>}

RowUnits ==
    {<<"3", " ", "U", "n", "i", "t", "s">>, <<"0", " ", "U", "n", "i", "t", "s">>, <<"N", "/", "A">>}

RowInputs ==
    {Row(h, <<t, u>>) : h \in BOOLEAN, t \in RowTitles, u \in RowUnits}
    \cup {Row(h, <<<<"C", "o", "r", "e", " ", "C", "o", "u", "r", "s", "e", "s">>>>) : h \in BOOLEAN}

TableInputs ==
    {TableNode(FALSE, <<>>, rows) :
        rows \in UNION {[1..n -> RowInputs] : n \in 0..MaxRows}}

AccordionTitles ==
    {<<"1", "0", "0", " ", "L", "e", "v", "e", "l">>, <<"E", "l", "e", "c", "t", "i", "v", "e", "s">>}

\* the strings found between the tables of a block: a line break, the
\* comments ' 1st Semester ' and ' 2nd Semester '
SemesterMarkers ==
    {<<"\n">>,
     <<" ", "1", "s", "t", " ", "S", "e", "m", "e", "s", "t", "e", "r", " ">>,
     <<" ", "2", "n", "d", " ", "S", "e", "m", "e", "s", "t", "e", "r", " ">>}

\* a table of one course row
CourseTable(title) ==
    TableNode(FALSE, <<>>, <<Row(TRUE, <<title, <<"3", " ", "U", "n", "i", "t", "s">>>>)>>)

\* three tables of one course each: Calculus I, Physics I, Logic
BlockTables ==
    <<CourseTable(<<"C", "a", "l", "c", "u", "l", "u", "s", " ", "I">>),
      CourseTable(<<"P", "h", "y", "s", "i", "c", "s", " ", "I">>),
      CourseTable(<<"L", "o", "g", "i", "c">>)>>

\* a table whose header row names the second semester
TableHeaded ==
    TableNode(FALSE, <<<<"S", "e", "c", "o", "n", "d", " ", "S", "e", "m", "e", "s", "t", "e", "r">>, <<"U", "n", "i", "t", "s">>>>,
              <<Row(TRUE, <<<<"S", "t", "a", "t", "i", "s", "t", "i", "c", "s">>, <<"2", " ", "U", "n", "i", "t", "s">>>>)>>)

\* a table whose first row names the rain semester
TableRain ==
    TableNode(FALSE, <<>>,
              <<Row(FALSE, <<<<"R", "a", "i", "n", " ", "S", "e", "m", "e", "s", "t", "e", "r">>>>),
                Row(TRUE, <<<<"E", "t", "h", "i", "c", "s">>, <<"2", " ", "U", "n", "i", "t", "s">>>>)>>)

\* blocks of one, two and three tables, each table after one string
BlockInputs ==
    {<<StringNode(m), t>> :
        m \in SemesterMarkers, t \in {BlockTables[1], TableHeaded, TableRain}}
    \cup {<<StringNode(m1), BlockTables[1], StringNode(m2), t>> :
             m1 \in SemesterMarkers, m2 \in SemesterMarkers,
             t \in {BlockTables[2], TableHeaded}}
    \cup {<<StringNode(m1), BlockTables[1], StringNode(m2), BlockTables[2], StringNode(m3), BlockTables[3]>> :
             m1 \in SemesterMarkers, m2 \in SemesterMarkers,
             m3 \in SemesterMarkers}

PageInputs ==
    {DeptPage(<<Accordion(t, <<table>>)>>) :
        t \in AccordionTitles, table \in TableInputs}
    \cup {DeptPage(<<Accordion(<<"1", "0", "0", " ", "L", "e", "v", "e", "l">>, block)>>) :
             block \in BlockInputs}

InitParse ==
    /\ settings = [CREATE_INITIAL_CHANGELOG |-> TRUE, ALWAYS_SAVE_FULL_DATA |-> FALSE]
    /\ pc = "parse"
    /\ full_data_file = AbsentFile
    /\ changelog_file = AbsentChangelog
    /\ clock = 1
    /\ UpdaterAtRest
    /\ ScraperAtRest(1)
    /\ document \in PageInputs

ParsePage ==
    /\ pc = "parse"
    /\ found_courses' = scrape_department_page(document)
    /\ pc' = "parsed"
    /\ UNCHANGED <<settings, updateVars, courses_data, found_faculties,
                   faculty_index, dept_index, total_departments, total_courses,
                   requests, responses, results, document>>

NextParse == ParsePage

SpecParse == InitParse /\ [][NextParse]_vars

-----
(* _update_changelog called again and again on one changelog file           *)

MaxCalls == 3        \* calls of _update_changelog in a behaviour

Diff(new_departments, modified_departments, new_courses, modified_courses) ==
    [new_departments      |-> new_departments,
     modified_departments |-> modified_departments,
     new_courses          |-> new_courses,
     modified_courses     |-> modified_courses]

\* the shapes of the diffs _detect_changes gives: none, a new department
\* with and without courses, a department modified at the same count, grown
\* and shrunk, and a new department beside a shrunk one
DiffInputs ==
    {NoChanges,
     Diff({"CSC"}, {}, 2, 0),
     Diff({"CSC"}, {}, 0, 0),
     Diff({}, {"MAC"}, 0, 0),
     Diff({}, {"MAC"}, 1, 0),
     Diff({}, {"MAC"}, 0, 1),
     Diff({"CSC"}, {"MAC"}, 2, 1)}

\* the changelog before the first call: absent, empty, the header alone,
\* a line of text without its newline, lines of text, and a text whose
\* first line is an H2 line
ChangelogInputs ==
    {AbsentChangelog,
     [exists |-> TRUE, content |-> <<>>],
     [exists |-> TRUE, content |-> TitleBlock],
     [exists |-> TRUE, content |-> <<[kind |-> "text"]>>],
     [exists |-> TRUE, content |-> <<[kind |-> "text"], NewLine>>],
     [exists |-> TRUE, content |-> <<[kind |-> "h2", timestamp |-> 0], NewLine>>]}

InitChangelog ==
    /\ settings = [CREATE_INITIAL_CHANGELOG |-> TRUE, ALWAYS_SAVE_FULL_DATA |-> FALSE]
    /\ pc = "changelog"
    /\ full_data_file = AbsentFile
    /\ changelog_file \in ChangelogInputs
    /\ clock = 0
    /\ UpdaterAtRest
    /\ ScraperAtRest(0)
    /\ document = PageEmpty

UpdateChangelog ==
    /\ pc = "changelog"
    /\ clock < MaxCalls
    /\ clock' = clock + 1
    /\ \E diff \in DiffInputs :
          /\ changes' = diff
          /\ changelog_file' = update_changelog(diff, changelog_file, clock + 1)
    /\ UNCHANGED <<settings, pc, full_data_file, old_data, new_data, old_hash,
                   new_hash, has_changes, scrapeVars>>

NextChangelog == UpdateChangelog

SpecChangelog == InitChangelog /\ [][NextChangelog]_vars

-----
(* _detect_changes applied to every pair of catalogs                       *)

InitDetect ==
    /\ settings \in [CREATE_INITIAL_CHANGELOG : BOOLEAN, ALWAYS_SAVE_FULL_DATA : {FALSE}]
    /\ pc = "detect"
    /\ old_data \in Catalogs \cup {EmptyDict}
    /\ new_data \in Catalogs
    /\ old_hash = NoHash
    /\ new_hash = NoHash
    /\ changes = NoChanges
    /\ has_changes = FALSE
    /\ full_data_file = AbsentFile
    /\ changelog_file = AbsentChangelog
    /\ clock = 0
    /\ ScraperAtRest(0)
    /\ document = PageEmpty

DetectChanges ==
    /\ pc = "detect"
    /\ changes' = detect_changes(old_data, new_data)
    /\ pc' = "detected"
    /\ UNCHANGED <<settings, full_data_file, changelog_file, clock, old_data,
                   new_data, old_hash, new_hash, has_changes, scrapeVars>>

NextDetect == DetectChanges

SpecDetect == InitDetect /\ [][NextDetect]_vars

-----------------------------------------------------------------------------------------------------------------------------------------------------
(* _calculate_hash applied to pairs of catalogs that differ in metadata,    *)
(* key order, department name, url and courses                              *)

StaleHash == <<EmptyDict>>

HashMetadata ==
    {Metadata(1), Metadata(2), ("content_hash" :> StaleHash) @@ Metadata(1)}

HashDepartments ==
    {Department(n, u, t) : n \in {"Computer Science", "Computing"},
                           u \in {"/computer-science", "https://miva.edu.ng/computer-science"},
                           t \in {TreeOne, TreeEdit}}

HashFaculties(dept, swapped) ==
    LET computing == [name        |-> FacultyNames[1],
                      departments |-> "CSC" :> dept]
        other     == [name        |-> FacultyNames[2],
                      departments |-> "MAC" :> Department(DeptName("MAC"), DeptUrl("MAC"), TreeFour)]
    IN  IF swapped THEN <<other, computing>> ELSE <<computing, other>>

HashCatalogs ==
    {[metadata |-> m, faculties |-> HashFaculties(d, sw)] :
        m \in HashMetadata, d \in HashDepartments, sw \in BOOLEAN}

InitHash ==
    /\ settings = [CREATE_INITIAL_CHANGELOG |-> TRUE, ALWAYS_SAVE_FULL_DATA |-> FALSE]
    /\ pc = "hash"
    /\ old_data \in HashCatalogs
    /\ new_data \in HashCatalogs
    /\ old_hash = NoHash
    /\ new_hash = NoHash
    /\ changes = NoChanges
    /\ has_changes = FALSE
    /\ full_data_file = AbsentFile
    /\ changelog_file = AbsentChangelog
    /\ clock = 0
    /\ ScraperAtRest(0)
    /\ document = PageEmpty

\* the fingerprints of the two catalogs
HashBoth ==
    /\ pc = "hash"
    /\ old_hash' = calculate_hash(old_data)
    /\ new_hash' = calculate_hash(new_data)
    /\ pc' = "hashed"
    /\ UNCHANGED <<settings, full_data_file, changelog_file, clock, old_data,
                   new_data, changes, has_changes, scrapeVars>>

\* the digest is stored in the catalog, which is hashed again
StoreAndHashAgain ==
    /\ pc = "hashed"
    /\ old_data' = new_data
    /\ old_hash' = new_hash
    /\ new_data' = StoreHash(new_data, new_hash)
    /\ new_hash' = calculate_hash(StoreHash(new_data, new_hash))
    /\ pc' = "stored"
    /\ UNCHANGED <<settings, full_data_file, changelog_file, clock, changes,
                   has_changes, scrapeVars>>

NextHash == HashBoth \/ StoreAndHashAgain

SpecHash == InitHash /\ [][NextHash]_vars

-----
(* Properties of _detect_changes                                           *)

\* the department codes of a catalog, over all its faculties
DeptCodesOf(data) ==
    LET faculties == Get(data, "faculties", <<>>)
    IN  UNION {DOMAIN faculties[i].departments : i \in DOMAIN faculties}

\* the courses subtree a code stands for in the flat view of a catalog
CoursesOf(data, code) == get_flat_depts(data)[code].courses

RECURSIVE SumOf(_, _)
SumOf(f, S) ==
    IF S = {} THEN 0
    ELSE LET x == CHOOSE x \in S : TRUE IN f[x] + SumOf(f, S \ {x})

\* courses of a department, counted list by list
Count(data, code) ==
    LET courses == CoursesOf(data, code)
        slots   == {<<l, s>> \in {"100", "200"} \X {"first", "second", "rain"} :
                       l \in DOMAIN courses /\ s \in DOMAIN courses[l]}
    IN  SumOf([sl \in slots |-> Len(courses[sl[1]][sl[2]])], slots)

TotalCourses(data) ==
    SumOf([c \in DeptCodesOf(data) |-> Count(data, c)], DeptCodesOf(data))

FirstRunDiff(data) ==
    [new_departments      |-> DeptCodesOf(data),
     modified_departments |-> {},
     new_courses          |-> TotalCourses(data),
     modified_courses     |-> 0]

\* C2 as stated: on a first run (the old catalog has no departments) every
\* department of the new catalog is new and new_courses is its course total.
C2_FirstRunAlwaysAllNew ==
    (pc = "detected" /\ DeptCodesOf(old_data) = {})
        => changes = FirstRunDiff(new_data)

\* C2 amended: on a first run the diff lists every department code of the new
\* catalog as new and counts the courses of its flat department view when
\* settings.CREATE_INITIAL_CHANGELOG is set, and is the empty diff when it is
\* not; no department is modified either way.
C2_FirstRun ==
    (pc = "detected" /\ DeptCodesOf(old_data) = {})
        => changes = IF settings.CREATE_INITIAL_CHANGELOG
                     THEN FirstRunDiff(new_data)
                     ELSE NoChanges

C2_Witness ==
    /\ pc = "detected"
    /\ old_data = EmptyDict
    /\ settings.CREATE_INITIAL_CHANGELOG
    /\ changes.new_departments = {"CSC", "MAC"}
    /\ changes.new_courses = 5

\* C3: a catalog compared with itself gives the empty diff, also when it has
\* no department and when two faculties hold the same department code.
C3_NoOpDetection ==
    (pc = "detected" /\ old_data = new_data) => changes = NoChanges

C3_Witness ==
    /\ pc = "detected"
    /\ old_data = new_data
    /\ \E i, j \in DOMAIN new_data.faculties :
          /\ i # j
          /\ "CSC" \in DOMAIN new_data.faculties[i].departments
          /\ "CSC" \in DOMAIN new_data.faculties[j].departments
          /\ new_data.faculties[i].departments["CSC"].courses
                # new_data.faculties[j].departments["CSC"].courses
    /\ changes = NoChanges

\* new is old with one department added under faculty i, with a code no
\* department of old has
AddsOneDepartment(old, new, i, code) ==
    /\ "faculties" \in DOMAIN old
    /\ i \in DOMAIN old.faculties
    /\ DOMAIN new.faculties = DOMAIN old.faculties
    /\ code \notin DeptCodesOf(old)
    /\ code \in DOMAIN new.faculties[i].departments
    /\ \A j \in DOMAIN old.faculties :
          /\ new.faculties[j].name = old.faculties[j].name
          /\ DOMAIN new.faculties[j].departments =
                DOMAIN old.faculties[j].departments
                    \cup (IF j = i THEN {code} ELSE {})
          /\ \A c \in DOMAIN old.faculties[j].departments :
                new.faculties[j].departments[c] = old.faculties[j].departments[c]

AdditionDiff(new, i, code) ==
    [new_departments      |-> {code},
     modified_departments |-> {},
     new_courses          |-> CountCourses(new.faculties[i].departments[code].courses),
     modified_courses     |-> 0]

\* C4 as stated: adding one department with k courses to any catalog gives
\* new_departments = {its code}, new_courses = k and nothing modified.
C4_AdditionAlwaysReported ==
    pc = "detected" =>
        \A i \in 1..2, code \in DeptCodes :
            AddsOneDepartment(old_data, new_data, i, code)
                => changes = AdditionDiff(new_data, i, code)

\* C4 amended: adding one department with k courses, under a code no department
\* of the old catalog has, gives new_departments = {its code}, new_courses = k
\* and nothing modified, provided the old catalog has a department or
\* settings.CREATE_INITIAL_CHANGELOG is set; added to a catalog with no
\* department while the setting is off, it gives the empty diff.
C4_MonotonicAddition ==
    pc = "detected" =>
        \A i \in 1..2, code \in DeptCodes :
            AddsOneDepartment(old_data, new_data, i, code)
                => changes = IF \/ DeptCodesOf(old_data) # {}
                                \/ settings.CREATE_INITIAL_CHANGELOG
                             THEN AdditionDiff(new_data, i, code)
                             ELSE NoChanges

C4_Witness ==
    /\ pc = "detected"
    /\ AddsOneDepartment(old_data, new_data, 2, "MAC")
    /\ DeptCodesOf(old_data) = {"CSC"}
    /\ changes.new_departments = {"MAC"}
    /\ changes.new_courses = 4

\* the codes both flat views hold
InBoth == DOMAIN get_flat_depts(old_data) \cap DOMAIN get_flat_depts(new_data)

Grown(c)  == IF Count(new_data, c) > Count(old_data, c)
             THEN Count(new_data, c) - Count(old_data, c) ELSE 0
Shrunk(c) == IF Count(new_data, c) < Count(old_data, c)
             THEN Count(old_data, c) - Count(new_data, c) ELSE 0

\* C5: a department of both catalogs is listed as modified exactly when its
\* courses subtrees differ; new_courses is the courses of the departments
\* listed as new plus n - o over the departments of both with n > o, and
\* modified_courses is o - n over those with n < o.
C5_ModifiedDepartments ==
    pc = "detected" =>
        /\ changes.modified_departments =
              {c \in InBoth : CoursesOf(old_data, c) # CoursesOf(new_data, c)}
        /\ changes.new_courses =
              SumOf([c \in changes.new_departments |-> Count(new_data, c)],
                    changes.new_departments)
              + SumOf([c \in InBoth |-> Grown(c)], InBoth)
        /\ changes.modified_courses = SumOf([c \in InBoth |-> Shrunk(c)], InBoth)

\* CSC grows from one course to four and MAC has its only course replaced
C5_Witness ==
    /\ pc = "detected"
    /\ InBoth = {"CSC", "MAC"}
    /\ CoursesOf(old_data, "CSC") = TreeOne
    /\ CoursesOf(new_data, "CSC") = TreeFour
    /\ CoursesOf(old_data, "MAC") = TreeOne
    /\ CoursesOf(new_data, "MAC") = TreeEdit
    /\ changes = [new_departments      |-> {},
                  modified_departments |-> {"CSC", "MAC"},
                  new_courses          |-> 3,
                  modified_courses     |-> 0]

-----------------------------------------------------------------------------
(* Properties of _calculate_hash                                           *)

\* the faculties of two catalogs are equal as mappings
SameFaculties(a, b) ==
    /\ OrderedKeys(a.faculties) = OrderedKeys(b.faculties)
    /\ \A i \in DOMAIN a.faculties, j \in DOMAIN b.faculties :
          a.faculties[i].name = b.faculties[j].name
              => a.faculties[i].departments = b.faculties[j].departments

\* every department code stands for the same courses subtree in both
SameCourses(a, b) ==
    /\ DeptCodesOf(a) = DeptCodesOf(b)
    /\ \A c \in DeptCodesOf(a) : CoursesOf(a, c) = CoursesOf(b, c)

\* C6: catalogs with equal faculties have the same digest whatever their
\* metadata; the digest run_update stores in metadata.content_hash is the
\* digest of the catalog that holds it.
C6_HashIgnoresMetadata ==
    /\ (pc = "hashed" /\ SameFaculties(old_data, new_data)) => old_hash = new_hash
    /\ pc = "stored" =>
          /\ new_data.metadata.content_hash = old_hash
          /\ new_hash = old_hash

C6_Witness ==
    /\ pc = "stored"
    /\ SameFaculties(old_data, new_data)
    /\ old_data.faculties[1].name = FacultyNames[2]
    /\ "content_hash" \notin DOMAIN old_data.metadata
    /\ new_data.metadata.content_hash = new_hash
    /\ new_data.metadata.lastUpdated = 2
    /\ new_hash = old_hash

\* C7 as stated: catalogs whose department codes stand for the same courses
\* subtrees have the same digest, whatever the departments' names and urls.
C7_HashOfCoursesOnly ==
    (pc = "hashed" /\ SameCourses(old_data, new_data)) => old_hash = new_hash

\* C7 amended: the digest is a function of the faculties subtree: two catalogs
\* have the same digest exactly when their faculties are equal as mappings
\* (faculty names, department codes, names, urls and courses), so a differing
\* department name or url alone changes the digest.
C7_HashOfFaculties ==
    pc = "hashed" => (old_hash = new_hash <=> SameFaculties(old_data, new_data))

C7_Witness ==
    /\ pc = "hashed"
    /\ SameCourses(old_data, new_data)
    /\ get_flat_depts(old_data)["CSC"].name # get_flat_depts(new_data)["CSC"].name
    /\ \A i \in DOMAIN old_data.faculties :
          /\ old_data.faculties[i].name = new_data.faculties[i].name
          /\ \A c \in DOMAIN old_data.faculties[i].departments :
                old_data.faculties[i].departments[c].url
                    = new_data.faculties[i].departments[c].url
    /\ old_hash # new_hash

-----
(* Properties of run_update                                                 *)

\* run_update has returned
RunReturned == pc = "idle" /\ clock >= 1

\* the scrape of the run that returned gave a catalog with a faculty
ScrapedFaculties == Get(new_data, "faculties", <<>>) # <<>>

\* the fingerprint the run read: the catalog file could not be read, or the
\* catalog it held has no metadata.content_hash
NoPersistedHash ==
    "content_hash" \notin DOMAIN Get(old_data, "metadata", EmptyDict)

PersistedHash == old_data["metadata"]["content_hash"]

\* C1: a run whose scrape gave a catalog with a faculty returns true exactly
\* when no fingerprint was persisted before it or the fingerprint of the new
\* catalog differs from the persisted one, and false when the two are equal
C1_HasChanges ==
    (RunReturned /\ ScrapedFaculties) =>
        (has_changes <=>
            (NoPersistedHash \/ calculate_hash(new_data) # PersistedHash))

\* a second run that finds the fingerprint of the first and returns false
C1_Witness ==
    /\ RunReturned
    /\ ScrapedFaculties
    /\ clock = 2
    /\ ~NoPersistedHash
    /\ calculate_hash(new_data) = PersistedHash
    /\ ~has_changes

\* scrape_all has returned and the root page gave no faculty
DiscoveryFailed == pc = "scraped" /\ found_faculties = <<>>

\* C10: when the root page gives no faculty, scrape_all has requested the
\* root url only and returns a catalog without faculties, and run_update
\* then returns false and leaves the catalog file and the changelog as they are
C10_DiscoveryFailure ==
    /\ [](DiscoveryFailed =>
            /\ requests = <<faculties_url>>
            /\ Get(courses_data, "faculties", <<>>) = <<>>)
    /\ [][DiscoveryFailed =>
            /\ pc' = "idle"
            /\ ~has_changes'
            /\ full_data_file' = full_data_file
            /\ changelog_file' = changelog_file]_vars

\* a second run that found no faculty and returned over the files of the first
C10_Witness ==
    /\ RunReturned
    /\ clock = 2
    /\ found_faculties = <<>>
    /\ requests = <<faculties_url>>
    /\ ~ScrapedFaculties
    /\ ~has_changes
    /\ full_data_file.kind = "json"
    /\ changelog_file.exists
    /\ Len(changelog_file.content) >= 2

-----
(* Properties of scrape_all                                                 *)

\* the department entries of a catalog, over its faculties
DepartmentEntries(data) ==
    Cardinality({<<i, c>> \in (DOMAIN data.faculties) \X DeptCodesOf(data) :
                    c \in DOMAIN data.faculties[i].departments})

\* C8: in the catalog scrape_all returns every department that yielded
\* courses has an entry of its own: as many entries as departments that
\* yielded courses, none put in the place of another under the same code
C8_DepartmentCodesUnique ==
    pc = "scraped" => DepartmentEntries(courses_data) = total_departments

-----
(* Properties of the extractor                                              *)

\* the courses of a result of scrape_department_page
StoredCourses(by_level) ==
    UNION {{by_level[l][sem][k] : k \in DOMAIN by_level[l][sem]} :
              <<l, sem>> \in {<<l, sem>> \in (DOMAIN by_level) \X {"first", "second"} :
                                sem \in DOMAIN by_level[l]}}

\* C9: every course the extractor stores has a title and more than zero
\* credit units; a row whose units are zero or hold no integer is dropped
C9_CreditUnitsPositive ==
    pc = "parsed" =>
        \A course \in StoredCourses(found_courses) :
            /\ course.title # <<>>
            /\ course.creditUnits > 0

-----
(* Properties of scrape_all: failures and empty departments                 *)

\* the departments of the faculties found, in the order scrape_all takes them
RECURSIVE Discovered(_)
Discovered(found) ==
    IF found = <<>> THEN <<>>
    ELSE [k \in DOMAIN Head(found).departments |->
             [faculty |-> Head(found).name,
              name    |-> Head(found).departments[k].name]]
         \o Discovered(Tail(found))

\* the catalog holds, in the faculty, a department of that name and courses
Holds(data, faculty, name, held) ==
    \E i \in DOMAIN data.faculties :
        /\ data.faculties[i].name = faculty
        /\ \E c \in DOMAIN data.faculties[i].departments :
              /\ data.faculties[i].departments[c].name = name
              /\ data.faculties[i].departments[c].courses = held

\* C11: whatever departments fail, scrape_all requests every department
\* found, returns, and the catalog it returns holds every department that
\* gave courses, with these courses, and no other department
C11_FailureIsolated ==
    (pc = "scraped" /\ found_faculties # <<>>) =>
        LET depts == Discovered(found_faculties)
        IN  /\ Len(results) = Len(depts)
            /\ Len(requests) = Len(depts) + 1
            /\ \A k \in DOMAIN depts :
                  results[k] # EmptyDict =>
                      Holds(courses_data, depts[k].faculty, depts[k].name, results[k])
            /\ \A i \in DOMAIN courses_data.faculties :
               \A c \in DOMAIN courses_data.faculties[i].departments :
                  \E k \in DOMAIN depts :
                      /\ results[k] # EmptyDict
                      /\ depts[k].faculty = courses_data.faculties[i].name
                      /\ depts[k].name = courses_data.faculties[i].departments[c].name
                      /\ results[k] = courses_data.faculties[i].departments[c].courses

\* the part of C11 that does not rest on the codes being distinct: every
\* department is requested and the run returns, whatever fails
EveryDepartmentRequested ==
    (pc = "scraped" /\ found_faculties # <<>>) =>
        /\ Len(results) = Len(Discovered(found_faculties))
        /\ \A i \in DOMAIN courses_data.faculties :
           \A c \in DOMAIN courses_data.faculties[i].departments :
              \E k \in DOMAIN results :
                  results[k] = courses_data.faculties[i].departments[c].courses

\* C12: every department of the catalog scrape_all returns holds a course;
\* a department whose tables hold no course row is not stored
C12_NoEmptyDepartment ==
    pc = "scraped" =>
        \A i \in DOMAIN courses_data.faculties :
        \A c \in DOMAIN courses_data.faculties[i].departments :
            CountCourses(courses_data.faculties[i].departments[c].courses) >= 1

-----
(* Properties of _update_changelog                                          *)

\* the call wrote the file
Written == changelog_file' # changelog_file

\* C13: _update_changelog writes or creates the changelog exactly when one
\* of the two lists is not empty or one of the two counters is not zero;
\* on an empty diff the file is left as it is, and left absent
C13_EmptyDiffNoOp ==
    [][(pc = "changelog") =>
          (Written <=>
              \/ changes'.new_departments # {}
              \/ changes'.modified_departments # {}
              \/ changes'.new_courses # 0
              \/ changes'.modified_courses # 0)]_vars

\* an empty diff has left an absent file absent, after an earlier call
C13_Witness ==
    /\ pc = "changelog"
    /\ clock = 1
    /\ changes = NoChanges
    /\ changelog_file = AbsentChangelog

\* the timestamps of the H2 lines of a text, in order
Headings(content) ==
    LET h2 == Places(content, {i \in DOMAIN content : content[i].kind = "h2"})
    IN  [k \in DOMAIN h2 |-> content[h2[k]].timestamp]

\* the text starts with the header the program writes
StartsWithHeader(content) ==
    Len(content) >= Len(TitleBlock) /\ SubSeq(content, 1, Len(TitleBlock)) = TitleBlock

\* C14: a changelog the program made is its header and then the entries,
\* the most recent first; each entry written goes right after the header,
\* before the entries there were, which stay as they are; into a file
\* without an H2 line the entry goes at the end
C14_MostRecentFirst ==
    /\ []((pc = "changelog" /\ StartsWithHeader(changelog_file.content)) =>
            \A j, k \in DOMAIN Headings(changelog_file.content) :
                j < k => Headings(changelog_file.content)[j]
                          > Headings(changelog_file.content)[k])
    /\ [][(pc = "changelog" /\ Written) =>
            LET old   == changelog_file.content
                entry == EntryBlock(changes', clock')
            IN  IF ~changelog_file.exists
                THEN changelog_file'.content = TitleBlock \o entry
                ELSE IF StartsWithHeader(old)
                THEN changelog_file'.content =
                         TitleBlock \o entry
                         \o SubSeq(old, Len(TitleBlock) + 1, Len(old))
                ELSE Headings(old) = <<>> =>
                         changelog_file'.content = old \o entry]_vars

\* three entries written from an absent file, the last call the most recent
C14_Witness ==
    /\ pc = "changelog"
    /\ StartsWithHeader(changelog_file.content)
    /\ Headings(changelog_file.content) = <<3, 2, 1>>
    /\ ~IsEmptyDiff(changes)

-----
(* Properties of run_update: persistence                                    *)

\* run_update is between its read of the catalog file and its return
Running == pc \in {"scrape_all", "department", "scraped"}

\* the diff of a first run over the catalog scraped
FirstRunOf(data) ==
    IF settings.CREATE_INITIAL_CHANGELOG THEN FirstRunDiff(data) ELSE NoChanges

\* C15: a catalog file that is absent or not JSON gives a run with no
\* previous data, which goes as a first run; and a run does not return its
\* normal result when the write of the catalog file failed, so a run that
\* returned true has left the new catalog in the file
C15_PersistenceErrors ==
    /\ (Running /\ full_data_file.kind # "json") =>
           (old_data = EmptyDict /\ old_hash = NoHash)
    /\ (RunReturned /\ ScrapedFaculties /\ old_data = EmptyDict) =>
           (has_changes /\ changes = FirstRunOf(new_data))
    /\ (RunReturned /\ ScrapedFaculties /\ has_changes) =>
           full_data_file = JsonFile(new_data)

\* the fingerprint a catalog file holds is that of its own faculties
FingerprintPersisted ==
    full_data_file.kind = "json" =>
        /\ "content_hash" \in DOMAIN Get(full_data_file.data, "metadata", EmptyDict)
        /\ full_data_file.data["metadata"]["content_hash"]
               = calculate_hash(full_data_file.data)

\* C18: a run that scrapes the faculties the catalog file holds reports no
\* change and gives an empty diff, whatever ALWAYS_SAVE_FULL_DATA is; and
\* the catalog file, once written, holds the fingerprint of its own faculties
C18_StableAcrossRuns ==
    RunReturned =>
        /\ FingerprintPersisted
        /\ (ScrapedFaculties /\ old_data # EmptyDict /\ SameFaculties(old_data, new_data))
               => (~has_changes /\ changes = NoChanges)

-----
(* Properties of run_update: departments that went away                     *)

\* the new catalog is the old one less some departments: the old one holds
\* departments, the new one holds fewer codes, each with the courses it had
RemovedOnly(old, new) ==
    /\ DeptCodesOf(old) # {}
    /\ DeptCodesOf(new) \subseteq DeptCodesOf(old)
    /\ DeptCodesOf(new) # DeptCodesOf(old)
    /\ \A c \in DeptCodesOf(new) : CoursesOf(old, c) = CoursesOf(new, c)

\* C19: the two lists of a diff name departments of the new catalog only; a
\* department of the old catalog alone is in neither and counts in neither
\* counter, which are sums over the departments of the new catalog; so a
\* new catalog that is the old one less some departments gives the empty
\* diff, and run_update returns true, writes no changelog entry and puts the
\* new catalog in the file (unless the write fails)
C19_RemovedInvisible ==
    /\ []((RunReturned /\ ScrapedFaculties /\ has_changes) =>
            /\ changes.new_departments \subseteq DeptCodesOf(new_data)
            /\ changes.modified_departments \subseteq DeptCodesOf(new_data)
            /\ \A c \in DeptCodesOf(old_data) \ DeptCodesOf(new_data) :
                  c \notin changes.new_departments \cup changes.modified_departments
            /\ DeptCodesOf(old_data) # {} =>
                  /\ changes.new_courses =
                        SumOf([c \in changes.new_departments |-> Count(new_data, c)],
                              changes.new_departments)
                        + SumOf([c \in InBoth |-> Grown(c)], InBoth)
                  /\ changes.modified_courses =
                        SumOf([c \in InBoth |-> Shrunk(c)], InBoth))
    /\ []((RunReturned /\ ScrapedFaculties /\ RemovedOnly(old_data, new_data)) =>
            (has_changes /\ changes = NoChanges))
    /\ [][(pc = "scraped" /\ RemovedOnly(old_data, courses_data)) =>
            /\ changelog_file' = changelog_file
            /\ \/ full_data_file' = JsonFile(new_data')
               \/ full_data_file' \in {full_data_file, InvalidFile}]_vars

\* the second run finds the department MAC gone: it returns true, leaves
\* the changelog with the entry of the first run and replaces the catalog
C19_Witness ==
    /\ RunReturned
    /\ clock = 2
    /\ DeptCodesOf(old_data) = {"CSC", "MAC"}
    /\ DeptCodesOf(new_data) = {"CSC"}
    /\ RemovedOnly(old_data, new_data)
    /\ has_changes
    /\ changes = NoChanges
    /\ Headings(changelog_file.content) = <<1>>
    /\ full_data_file = JsonFile(new_data)

-----
(* Properties of the extractor: the semester of a table                     *)

\* the strings between the table before content[at] and content[at], the
\* nearest first
OwnStrings(content, at) ==
    LET earlier == {i \in 1..(at - 1) : content[i].kind = "table"}
        from    == IF earlier = {} THEN 0
                   ELSE CHOOSE i \in earlier : \A j \in earlier : j <= i
        own     == Places(content, {i \in (from + 1)..(at - 1) :
                                       /\ content[i].kind = "string"
                                       /\ content[i].string # <<>>})
    IN  [k \in DOMAIN own |-> content[own[Len(own) + 1 - k]].string]

\* the chain of rules: the table's own strings, its header row, its first
\* row, its position
ChainSemester(content, at, table_index) ==
    LET table      == content[at]
        by_sibling == FirstKeyword(OwnStrings(content, at))
        by_header  == FirstKeyword(table.thead)
        by_row     == SemesterKeyword(Lower(FirstRowText(table)))
    IN  IF by_sibling # NoSemester THEN by_sibling
        ELSE IF by_header # NoSemester THEN by_header
        ELSE IF by_row # NoSemester THEN by_row
        ELSE IF table_index = 0 THEN "first"
        ELSE IF table_index = 1 THEN "second"
        ELSE NoSemester

RECURSIVE ChainCourses(_, _, _, _)
ChainCourses(content, tables, k, semester) ==
    IF k > Len(tables) THEN <<>>
    ELSE (IF ChainSemester(content, tables[k], k - 1) = semester
          THEN parse_table_courses(content[tables[k]])
          ELSE <<>>)
         \o ChainCourses(content, tables, k + 1, semester)

\* the buckets of a block when every table goes where the chain puts it
ChainBuckets(content) ==
    LET tables    == TablesRead(content)
        semesters == {ChainSemester(content, tables[k], k - 1) :
                         k \in DOMAIN tables} \ {NoSemester}
    IN  [sem \in semesters |-> ChainCourses(content, tables, 1, sem)]

\* C16: the semester of every table of a level block is decided by the
\* first rule that applies among the keyword in the strings right before
\* the table, the keyword in its header row, the keyword in its first row
\* and its position (first, second, none), so the buckets stored for a level
\* are those of the chain, and a third table with no marker of its own
\* gives no course
C16_PriorityChain ==
    pc = "parsed" =>
        \A l \in {LevelOf(document.accordions[a].title) :
                     a \in DOMAIN document.accordions} \ {NoLevel} :
            LET blocks == {a \in DOMAIN document.accordions :
                              /\ LevelOf(document.accordions[a].title) = l
                              /\ DOMAIN ChainBuckets(document.accordions[a].content) # {}}
            IN  IF blocks = {} THEN l \notin DOMAIN found_courses
                ELSE /\ l \in DOMAIN found_courses
                     /\ found_courses[l] =
                           ChainBuckets(document.accordions[
                               CHOOSE a \in blocks : \A b \in blocks : b <= a].content)

-----
(* Properties of scrape_all: attempts of a fetch                            *)

\* the request i is the first attempt of its fetch: it does not repeat the
\* request before it
FirstAttempt(i) == i = 1 \/ requests[i - 1] # requests[i]

\* C17: a fetch that fails is tried again, until an attempt succeeds or the
\* configured number of retries (one at least) is used up: when scrape_all
\* has returned, every first attempt that failed is followed by a request
\* for the same url
C17_FailedFetchRetried ==
    pc = "scraped" =>
        \A i \in DOMAIN requests :
            (FirstAttempt(i) /\ responses[i] = "failed") =>
                /\ i < Len(requests)
                /\ requests[i + 1] = requests[i]

====
